---- MODULE Spec2Model ----
(***************************************************************************)
(* A model of scripts/parse-results.py: the attachment text parser, the    *)
(* attachment source lookup, the per-record decoder, the run aggregator    *)
(* and the two append-only CSV logs.                                       *)
(*                                                                         *)
(* Text is a sequence of one-character strings.  A float is a record       *)
(* [n, d]: the exact fraction n/d in lowest terms with d > 0, or NaN,      *)
(* written [n |-> 0, d |-> 0].  Arithmetic on these values is exact.       *)
(***************************************************************************)
EXTENDS Integers, Sequences, FiniteSets, TLC

\* ------------------------------------------------------------------ bounds

MaxLines == 3
MaxAttachments == 2
MaxSteps == 2
MaxRecords == 2
NumInvocations == 2

\* ------------------------------------------------------------ Python str

Whitespace == {" ", "\t", "\n", "\r", "\f"}

Digits == {"0", "1", "2", "3", "4", "5", "6", "7", "8", "9"}

UpperToLower ==
  [c \in {"A", "D", "E", "G", "I", "L", "M", "N", "O", "R", "S", "T", "V"} |->
     CASE c = "A" -> "a" [] c = "D" -> "d" [] c = "E" -> "e" [] c = "G" -> "g"
       [] c = "I" -> "i" [] c = "L" -> "l" [] c = "M" -> "m" [] c = "N" -> "n"
       [] c = "O" -> "o" [] c = "R" -> "r" [] c = "S" -> "s" [] c = "T" -> "t"
       [] c = "V" -> "v"]

\* str.lower()
str_lower(s) ==
  [i \in 1..Len(s) |-> IF s[i] \in DOMAIN UpperToLower THEN UpperToLower[s[i]] ELSE s[i]]

MatchesAt(sub, s, i) ==
  /\ i + Len(sub) - 1 <= Len(s)
  /\ \A j \in 1..Len(sub) : s[i + j - 1] = sub[j]

\* str.find(sub) + 1: the position of the leftmost occurrence, 0 when none
str_find(sub, s) ==
  LET hits == {i \in 1..Len(s) : MatchesAt(sub, s, i)}
  IN  IF hits = {} THEN 0 ELSE CHOOSE i \in hits : \A k \in hits : i <= k

\* sub in s
str_in(sub, s) == str_find(sub, s) # 0

RECURSIVE str_split(_, _)
\* str.split(sep), sep not empty
str_split(s, sep) ==
  LET i == str_find(sep, s)
  IN  IF i = 0
      THEN <<s>>
      ELSE <<SubSeq(s, 1, i - 1)>> \o str_split(SubSeq(s, i + Len(sep), Len(s)), sep)

RECURSIVE str_lstrip(_)
str_lstrip(s) ==
  IF s # <<>> /\ s[1] \in Whitespace THEN str_lstrip(Tail(s)) ELSE s

RECURSIVE str_rstrip(_)
str_rstrip(s) ==
  IF s # <<>> /\ s[Len(s)] \in Whitespace THEN str_rstrip(SubSeq(s, 1, Len(s) - 1)) ELSE s

\* str.strip()
str_strip(s) == str_rstrip(str_lstrip(s))

RECURSIVE str_split_ws(_)
\* str.split() with no argument: the maximal runs of non-whitespace
str_split_ws(s) ==
  LET t == str_lstrip(s)
      ws == {i \in 1..Len(t) : t[i] \in Whitespace}
      e == IF ws = {} THEN Len(t) + 1 ELSE CHOOSE i \in ws : \A k \in ws : i <= k
  IN  IF t = <<>>
      THEN <<>>
      ELSE <<SubSeq(t, 1, e - 1)>> \o str_split_ws(SubSeq(t, e, Len(t)))

RECURSIVE str_join(_, _)
\* sep.join(items)
str_join(sep, items) ==
  IF items = <<>> THEN <<>>
  ELSE IF Len(items) = 1 THEN items[1]
  ELSE items[1] \o sep \o str_join(sep, Tail(items))

\* ----------------------------------------------------------------- floats

NaN == [n |-> 0, d |-> 0]

\* the exception float() raises
ValueError == [raised |-> "ValueError"]

\* the exception [0] raises on an empty list
IndexError == [raised |-> "IndexError"]

IsNaN(x) == x.d = 0


RECURSIVE Gcd(_, _)
Gcd(a, b) == IF b = 0 THEN a ELSE Gcd(b, a % b)

Frac(n, d) ==
  LET g == Gcd(IF n < 0 THEN -n ELSE n, d) IN [n |-> n \div g, d |-> d \div g]

RECURSIVE Pow10(_)
Pow10(k) == IF k = 0 THEN 1 ELSE 10 * Pow10(k - 1)

DigitValue(c) ==
  CASE c = "0" -> 0 [] c = "1" -> 1 [] c = "2" -> 2 [] c = "3" -> 3 [] c = "4" -> 4
    [] c = "5" -> 5 [] c = "6" -> 6 [] c = "7" -> 7 [] c = "8" -> 8 [] c = "9" -> 9

RECURSIVE DigitsValue(_)
DigitsValue(s) ==
  IF s = <<>> THEN 0 ELSE 10 * DigitsValue(SubSeq(s, 1, Len(s) - 1)) + DigitValue(s[Len(s)])

\* float() as it would be if it accepted a trailing unit letter "s"
float_lenient(tok) ==
  LET neg == tok # <<>> /\ tok[1] = "-"
      body0 == IF tok # <<>> /\ tok[1] \in {"+", "-"} THEN Tail(tok) ELSE tok
      body == IF body0 # <<>> /\ body0[Len(body0)] = "s"
              THEN SubSeq(body0, 1, Len(body0) - 1) ELSE body0
      dots == {i \in 1..Len(body) : body[i] = "."}
      p == IF dots = {} THEN Len(body) + 1 ELSE CHOOSE i \in dots : TRUE
      ip == SubSeq(body, 1, p - 1)
      fp == SubSeq(body, p + 1, Len(body))
      m == DigitsValue(ip \o fp)
  IN  IF str_lower(body) = <<"n", "a", "n">> THEN NaN
      ELSE IF /\ Cardinality(dots) <= 1
              /\ \A i \in 1..Len(body) : body[i] \in Digits \cup {"."}
              /\ Len(ip) + Len(fp) >= 1
      THEN Frac(IF neg THEN -m ELSE m, Pow10(Len(fp)))
      ELSE ValueError

\* float(tok) of a token without whitespace: an optional sign, then "nan" in any
\* letter case or decimal digits with at most one point and at least one digit;
\* anything else raises ValueError.  (Exponents, underscores, "inf" and
\* non-ASCII digits are not in the alphabet of the texts drawn below.)
float_of(tok) ==
  LET neg == tok # <<>> /\ tok[1] = "-"
      body == IF tok # <<>> /\ tok[1] \in {"+", "-"} THEN Tail(tok) ELSE tok
      dots == {i \in 1..Len(body) : body[i] = "."}
      p == IF dots = {} THEN Len(body) + 1 ELSE CHOOSE i \in dots : TRUE
      ip == SubSeq(body, 1, p - 1)
      fp == SubSeq(body, p + 1, Len(body))
      m == DigitsValue(ip \o fp)
  IN  IF str_lower(body) = <<"n", "a", "n">> THEN NaN
      ELSE IF /\ Cardinality(dots) <= 1
              /\ \A i \in 1..Len(body) : body[i] \in Digits \cup {"."}
              /\ Len(ip) + Len(fp) >= 1
      THEN Frac(IF neg THEN -m ELSE m, Pow10(Len(fp)))
      ELSE ValueError

\* x < y on floats: every comparison with NaN is false
float_lt(x, y) == ~IsNaN(x) /\ ~IsNaN(y) /\ x.n * y.d < y.n * x.d

float_le(x, y) == ~IsNaN(x) /\ ~IsNaN(y) /\ x.n * y.d <= y.n * x.d

float_add(x, y) ==
  IF IsNaN(x) \/ IsNaN(y) THEN NaN ELSE Frac(x.n * y.d + y.n * x.d, x.d * y.d)

float_div(x, k) == IF IsNaN(x) THEN NaN ELSE Frac(x.n, x.d * k)

RECURSIVE py_sum(_)
\* sum(xs), starting from the int 0
py_sum(xs) ==
  IF xs = <<>> THEN [n |-> 0, d |-> 1]
  ELSE float_add(py_sum(SubSeq(xs, 1, Len(xs) - 1)), xs[Len(xs)])

RECURSIVE py_min(_)
\* min(xs): the first element, replaced by each later one that is < it
py_min(xs) ==
  IF Len(xs) = 1 THEN xs[1]
  ELSE LET m == py_min(SubSeq(xs, 1, Len(xs) - 1))
       IN  IF float_lt(xs[Len(xs)], m) THEN xs[Len(xs)] ELSE m

RECURSIVE py_max(_)
\* max(xs): the first element, replaced by each later one that is > it
py_max(xs) ==
  IF Len(xs) = 1 THEN xs[1]
  ELSE LET m == py_max(SubSeq(xs, 1, Len(xs) - 1))
       IN  IF float_lt(m, xs[Len(xs)]) THEN xs[Len(xs)] ELSE m

RECURSIVE NatStr(_)
NatStr(i) ==
  LET c == CHOOSE ch \in Digits : DigitValue(ch) = i % 10
  IN  IF i < 10 THEN <<c>> ELSE NatStr(i \div 10) \o <<c>>

RECURSIVE ZeroPad(_, _)
ZeroPad(s, k) == IF Len(s) >= k THEN s ELSE ZeroPad(<<"0">> \o s, k)

RECURSIVE DecimalPlaces(_, _)
\* the least k >= from with d dividing 10^k (d is a divisor of a power of 10)
DecimalPlaces(d, from) ==
  IF Pow10(from) % d = 0 THEN from ELSE DecimalPlaces(d, from + 1)

\* str(x) of a float that is NaN or a decimal: "nan", "2.0", "1.2", "-0.5"
float_str(x) ==
  IF IsNaN(x) THEN <<"n", "a", "n">>
  ELSE LET k == DecimalPlaces(x.d, 0)
           a == (IF x.n < 0 THEN -x.n ELSE x.n) * (Pow10(k) \div x.d)
           sign == IF x.n < 0 THEN <<"-">> ELSE <<>>
       IN  sign \o NatStr(a \div Pow10(k)) \o <<".">>
             \o (IF k = 0 THEN <<"0">> ELSE ZeroPad(NatStr(a % Pow10(k)), k))

\* ------------------------------------------- parse_performance_attachment

LOAD_TIME_COLON == <<"l", "o", "a", "d", " ", "t", "i", "m", "e", ":">>

LOAD_TIME == <<"l", "o", "a", "d", " ", "t", "i", "m", "e">>

AVERAGE == <<"a", "v", "e", "r", "a", "g", "e">>

\* what exists() answers for a path that names no file
NoFile == [exists |-> FALSE, text |-> <<>>]

\* a file that exists and holds the text t
File(t) == [exists |-> TRUE, text |-> t]

\* None
None == [py |-> "None"]

\* the line leaves the loop's variable as it is (continue, pass, a false condition)
Skip == [py |-> "continue"]

\* {}: the empty dict
EmptyDict == <<>>

\* lines 30-33 and 41-44: a token float() refuses leaves the loop's variable alone
ValueOrSkip(v) == IF v = ValueError THEN Skip ELSE v

\* lines 29-33: the value token of a sample line or of an average line.
\* IndexError is the [0] of an empty token list, Skip a token float() refuses.
ValueOfTokens(toks) ==
  IF toks = <<>> THEN IndexError ELSE ValueOrSkip(float_of(toks[1]))

\* lines 27-33
SampleOfParts(parts) ==
  IF Len(parts) > 1 THEN ValueOfTokens(str_split_ws(str_strip(parts[2]))) ELSE Skip

\* lines 26-33, one line of the first loop: the outcome for the list run_times
SampleOfLowered(line, lowered) ==
  IF str_in(LOAD_TIME_COLON, lowered) /\ ~str_in(AVERAGE, lowered)
  THEN SampleOfParts(str_split(line, LOAD_TIME_COLON))
  ELSE Skip

SampleOfLine(line) == SampleOfLowered(line, str_lower(line))

\* lines 31-33: run_times after one more line, raised once a line raised IndexError
AddSample(before, s) ==
  IF before.raised \/ s = IndexError THEN [raised |-> TRUE, run_times |-> <<>>]
  ELSE IF s = Skip THEN before
  ELSE [raised |-> FALSE, run_times |-> Append(before.run_times, s)]

RECURSIVE CollectRunTimes(_, _)
\* lines 24-33: the list run_times after the lines[1..k]
CollectRunTimes(lines, k) ==
  IF k = 0 THEN [raised |-> FALSE, run_times |-> <<>>]
  ELSE AddSample(CollectRunTimes(lines, k - 1), SampleOfLine(lines[k]))

\* lines 38-44
AverageOfParts(parts) ==
  IF Len(parts) > 1 THEN ValueOfTokens(str_split_ws(str_strip(parts[2]))) ELSE Skip

\* lines 37-44, one line of the second loop: the new avg_time, Skip when the
\* line assigns nothing
AverageOfLowered(line, lowered) ==
  IF str_in(AVERAGE, lowered) /\ str_in(LOAD_TIME, lowered)
  THEN AverageOfParts(str_split(line, <<":">>))
  ELSE Skip

AverageOfLine(line) == AverageOfLowered(line, str_lower(line))

\* lines 42-44: avg_time after one more line, IndexError once a line raised it
SetAverage(before, a) ==
  IF before = IndexError \/ a = IndexError THEN IndexError
  ELSE IF a = Skip THEN before
  ELSE a

RECURSIVE CollectAverage(_, _)
\* lines 35-44: avg_time after the lines[1..k]
CollectAverage(lines, k) ==
  IF k = 0 THEN None
  ELSE SetAverage(CollectAverage(lines, k - 1), AverageOfLine(lines[k]))

\* a dict is true when it is not empty
Truthy(d) == DOMAIN d # {}

\* lines 47-53
PerformanceDict(run_times, avg_time) ==
  [min_time |-> py_min(run_times),
   max_time |-> py_max(run_times),
   avg_time |-> IF avg_time # None THEN avg_time
                ELSE float_div(py_sum(run_times), Len(run_times)),
   run_count |-> Len(run_times),
   all_runs |-> str_join(<<",">>, [i \in 1..Len(run_times) |-> float_str(run_times[i])])]

\* lines 46-58: the result after the two loops; an IndexError of either loop is
\* caught at line 56
AfterLoops(first, avg_time) ==
  IF first.raised \/ avg_time = IndexError THEN EmptyDict
  ELSE IF first.run_times # <<>> THEN PerformanceDict(first.run_times, avg_time)
  ELSE EmptyDict

\* lines 24-58 on the lines of the text
ParseLines(lines) ==
  AfterLoops(CollectRunTimes(lines, Len(lines)), CollectAverage(lines, Len(lines)))

\* lines 15-58.  attachment_file is NoFile or File(text).
parse_performance_attachment(attachment_file) ==
  IF ~attachment_file.exists THEN EmptyDict
  ELSE ParseLines(str_split(attachment_file.text, <<"\n">>))

\* ------------------------------------- find_performance_attachment_source

\* dict.get(k, default)
Get(d, k, default) == IF k \in DOMAIN d THEN d[k] ELSE default

\* a str value where None is possible too
Str(s) == [py |-> "str", v |-> s]

\* lines 65-71 without the test of line 70: the first name match decides
RECURSIVE FirstSourceAnyMatch(_, _)
FirstSourceAnyMatch(attachments, i) ==
  IF i > Len(attachments) THEN None
  ELSE IF str_in(LOAD_TIME, str_lower(Get(attachments[i], "name", <<>>)))
       THEN Str(Get(attachments[i], "source", ""))
       ELSE FirstSourceAnyMatch(attachments, i + 1)

RECURSIVE FirstSource(_, _)
\* lines 66-71 and 76-81: the loop over one attachment list from index i on;
\* None when the loop ends without returning
FirstSource(attachments, i) ==
  IF i > Len(attachments) THEN None
  ELSE LET name == str_lower(Get(attachments[i], "name", <<>>))
           source == Get(attachments[i], "source", "")
       IN  IF str_in(LOAD_TIME, name) /\ source # ""
           THEN Str(source)
           ELSE FirstSource(attachments, i + 1)

RECURSIVE FirstStepSource(_, _)
\* lines 73-81: the loop over the steps from index i on
FirstStepSource(steps, i) ==
  IF i > Len(steps) THEN None
  ELSE LET r == FirstSource(Get(steps[i], "attachments", <<>>), 1)
       IN  IF r # None THEN r ELSE FirstStepSource(steps, i + 1)

\* lines 73-81 without the test of line 80
RECURSIVE FirstStepSourceAnyMatch(_, _)
FirstStepSourceAnyMatch(steps, i) ==
  IF i > Len(steps) THEN None
  ELSE LET r == FirstSourceAnyMatch(Get(steps[i], "attachments", <<>>), 1)
       IN  IF r # None THEN r ELSE FirstStepSourceAnyMatch(steps, i + 1)

\* the search as it would be without the tests of lines 70 and 80
find_source_any_match(test_data) ==
  LET test_stage == Get(test_data, "testStage", EmptyDict)
      top == FirstSourceAnyMatch(Get(test_stage, "attachments", <<>>), 1)
  IN  IF top # None THEN top
      ELSE FirstStepSourceAnyMatch(Get(test_stage, "steps", <<>>), 1)

\* lines 61-83
find_performance_attachment_source(test_data) ==
  LET test_stage == Get(test_data, "testStage", EmptyDict)
      top == FirstSource(Get(test_stage, "attachments", <<>>), 1)
  IN  IF top # None THEN top
      ELSE FirstStepSource(Get(test_stage, "steps", <<>>), 1)

\* --------------------------------------------------- parse_test_case_json

\* JSON values of a field whose type the records vary
JString(x) == [json |-> "string", str |-> x]

JNumber(x) == [json |-> "number", num |-> x]

JArray == [json |-> "array"]

TEST_SWAP_LOADING_TIME ==
  <<"t", "e", "s", "t", "_", "s", "w", "a", "p", "_", "l", "o", "a", "d", "i", "n", "g", "_", "t", "i", "m", "e">>

TEST_WALLET_LOADING_TIME ==
  <<"t", "e", "s", "t", "_", "w", "a", "l", "l", "e", "t", "_", "l", "o", "a", "d", "i", "n", "g", "_", "t", "i", "m", "e">>

\* benchmark_dir / 'attachments' / attachment_source
AttachmentPath(benchmark_dir, attachment_source) ==
  IF attachment_source \in DOMAIN benchmark_dir.attachments
  THEN benchmark_dir.attachments[attachment_source]
  ELSE NoFile

\* lines 91-97
TestResult(data) ==
  [test_name |-> Get(data, "name", <<>>),
   status |-> Get(data, "status", JString("unknown")),
   duration_ms |-> Get(Get(data, "time", EmptyDict), "duration", JNumber(0)),
   retries_count |-> Get(data, "retriesCount", 0),
   flaky |-> Get(data, "flaky", FALSE)]

\* line 102
IsPerformanceTest(test_name) ==
  \/ str_in(TEST_SWAP_LOADING_TIME, test_name)
  \/ str_in(TEST_WALLET_LOADING_TIME, test_name)

\* lines 109-114
PerformanceMetrics(test_result, perf_data) ==
  IF Truthy(perf_data)
  THEN [test_name |-> test_result.test_name,
        status |-> test_result.status,
        min_time |-> perf_data.min_time,
        max_time |-> perf_data.max_time,
        avg_time |-> perf_data.avg_time,
        run_count |-> perf_data.run_count,
        all_runs |-> perf_data.all_runs]
  ELSE None

\* lines 105-107
PerfDataAt(attachment_source, benchmark_dir) ==
  IF attachment_source # None
  THEN parse_performance_attachment(AttachmentPath(benchmark_dir, attachment_source.v))
  ELSE EmptyDict

\* lines 99-116
Decoded(data, test_result, benchmark_dir) ==
  [raised |-> FALSE,
   test_result |-> test_result,
   performance_metrics |->
     IF IsPerformanceTest(test_result.test_name)
     THEN PerformanceMetrics(
            test_result,
            PerfDataAt(find_performance_attachment_source(data), benchmark_dir))
     ELSE None]

\* lines 86-116.  json_file is [malformed |-> TRUE], on which json.load raises, or
\* [malformed |-> FALSE, data |-> the decoded dict].
parse_test_case_json(json_file, benchmark_dir) ==
  IF json_file.malformed
  THEN [raised |-> TRUE]
  ELSE Decoded(json_file.data, TestResult(json_file.data), benchmark_dir)

\* ---------------------------------------------------- the run aggregate

\* float('inf') in min_duration_ms, and an int there
PyInf == [inf |-> TRUE, v |-> 0]

\* d[k] = v
SetItem(d, k, v) == [x \in DOMAIN d \cup {k} |-> IF x = k THEN v ELSE d[x]]

\* lines 136-141
InitialAggregate ==
  [total_tests |-> 0, passed |-> 0, failed |-> 0, broken |-> 0, skipped |-> 0,
   unknown |-> 0, total_duration_ms |-> 0, min_duration_ms |-> PyInf,
   max_duration_ms |-> 0, total_retries |-> 0, flaky_tests |-> 0]

\* line 153: min(aggregate['min_duration_ms'], duration_ms)
MinDuration(m, duration_ms) ==
  IF m.inf \/ duration_ms < m.v THEN [inf |-> FALSE, v |-> duration_ms] ELSE m

\* line 154: max(aggregate['max_duration_ms'], duration_ms)
MaxDuration(m, duration_ms) == IF duration_ms > m THEN duration_ms ELSE m

\* d[k] += n
Add(d, k, n) == SetItem(d, k, d[k] + n)

\* line 151: aggregate[status] = aggregate.get(status, 0) + 1
CountStatus(d, status) == SetItem(d, status, Get(d, status, 0) + 1)

\* lines 153-154
Extrema(d, duration_ms) ==
  [d EXCEPT !["min_duration_ms"] = MinDuration(@, duration_ms),
            !["max_duration_ms"] = MaxDuration(@, duration_ms)]

\* lines 155-157
RetriesAndFlaky(d, test_result) ==
  [d EXCEPT !["total_retries"] = @ + test_result.retries_count,
            !["flaky_tests"] = IF test_result.flaky THEN @ + 1 ELSE @]

\* lines 152-157, the duration a number
FoldDuration(d, test_result) ==
  RetriesAndFlaky(
    Extrema(Add(d, "total_duration_ms", test_result.duration_ms.num),
            test_result.duration_ms.num),
    test_result)

\* lines 152-157: line 152 raises TypeError on a duration that is not a number
FromLine152(a151, test_result) ==
  IF test_result.duration_ms.json # "number"
  THEN [raised |-> TRUE, aggregate |-> a151]
  ELSE [raised |-> FALSE, aggregate |-> FoldDuration(a151, test_result)]

\* lines 151-157: line 151 raises TypeError on an unhashable status
FromLine151(a150, test_result) ==
  IF test_result.status.json # "string"
  THEN [raised |-> TRUE, aggregate |-> a150]
  ELSE FromLine152(CountStatus(a150, test_result.status.str), test_result)

\* lines 150-157: the statements run in order and the first TypeError ends them,
\* leaving the assignments made before it
FoldRecord(aggregate, test_result) ==
  FromLine151(Add(aggregate, "total_tests", 1), test_result)

\* round(num / den * scale, 2) as a float: the nearest hundredth, ties to even
Round2(num, den, scale) ==
  LET q == (num * scale * 100) \div den
      r == (num * scale * 100) % den
      h == IF 2 * r > den \/ (2 * r = den /\ q % 2 = 1) THEN q + 1 ELSE q
  IN  Frac(h, 100)

\* lines 174-175
ResetSentinel(d) ==
  [d EXCEPT !["min_duration_ms"] = IF @.inf THEN [inf |-> FALSE, v |-> 0] ELSE @]

\* lines 177-179
WithEveryStatus(d) ==
  [k \in DOMAIN d \cup {"passed", "failed", "broken", "skipped", "unknown"} |->
     IF k \in DOMAIN d THEN d[k] ELSE 0]

\* lines 167-172
WithRates(d) ==
  [k \in DOMAIN d \cup {"pass_rate", "avg_duration_ms"} |->
     CASE k = "pass_rate" -> Round2(Get(d, "passed", 0), d["total_tests"], 100)
       [] k = "avg_duration_ms" -> Round2(d["total_duration_ms"], d["total_tests"], 1)
       [] OTHER -> d[k]]

\* lines 167-179: the derived fields, the sentinel reset, the five counters
FinalizeAggregate(aggregate) == WithEveryStatus(ResetSentinel(WithRates(aggregate)))

\* ------------------------------------------------------------ the CSV logs

SUMMARY_FIELDNAMES ==
  <<"commit_hash", "date", "total_tests", "passed", "failed", "broken", "skipped",
    "unknown", "pass_rate", "total_duration_ms", "avg_duration_ms",
    "min_duration_ms", "max_duration_ms", "total_retries", "flaky_tests">>

PERFORMANCE_FIELDNAMES ==
  <<"commit_hash", "date", "test_name", "status", "min_time", "max_time",
    "avg_time", "run_count", "all_runs">>

\* writer.writeheader()
HeaderRow(fieldnames) == [kind |-> "header", fieldnames |-> fieldnames]

\* lines 197-213: the dict given to writer.writerow
SummaryRowOf(commit_hash, date, aggregate) ==
  [kind |-> "row",
   commit_hash |-> commit_hash,
   date |-> date,
   total_tests |-> aggregate["total_tests"],
   passed |-> aggregate["passed"],
   failed |-> aggregate["failed"],
   broken |-> aggregate["broken"],
   skipped |-> aggregate["skipped"],
   unknown |-> aggregate["unknown"],
   pass_rate |-> aggregate["pass_rate"],
   total_duration_ms |-> aggregate["total_duration_ms"],
   avg_duration_ms |-> aggregate["avg_duration_ms"],
   min_duration_ms |-> aggregate["min_duration_ms"].v,
   max_duration_ms |-> aggregate["max_duration_ms"],
   total_retries |-> aggregate["total_retries"],
   flaky_tests |-> aggregate["flaky_tests"]]

\* lines 230-240: the dict given to writer.writerow
PerformanceRowOf(commit_hash, date, perf) ==
  [kind |-> "row",
   commit_hash |-> commit_hash,
   date |-> date,
   test_name |-> perf.test_name,
   status |-> perf.status,
   min_time |-> perf.min_time,
   max_time |-> perf.max_time,
   avg_time |-> perf.avg_time,
   run_count |-> perf.run_count,
   all_runs |-> perf.all_runs]

\* a CSV file that does not exist, and one that exists and holds the rows
NoCsv == [exists |-> FALSE, rows |-> <<>>]

Csv(rows) == [exists |-> TRUE, rows |-> rows]

\* ------------------------------------------------- attachment texts drawn

\* "load time: 1.2s"
L_run12s ==
  <<"l", "o", "a", "d", " ", "t", "i", "m", "e", ":", " ", "1", ".", "2", "s">>

\* "load time: 3.4s"
L_run34s ==
  <<"l", "o", "a", "d", " ", "t", "i", "m", "e", ":", " ", "3", ".", "4", "s">>

\* "load time: 1.2 s"
L_run12 ==
  <<"l", "o", "a", "d", " ", "t", "i", "m", "e", ":", " ", "1", ".", "2", " ", "s">>

\* "load time: 3.4 s"
L_run34 ==
  <<"l", "o", "a", "d", " ", "t", "i", "m", "e", ":", " ", "3", ".", "4", " ", "s">>

\* "Load Time: 2.0"
L_runUpper ==
  <<"L", "o", "a", "d", " ", "T", "i", "m", "e", ":", " ", "2", ".", "0">>

\* "load time:"
L_runNoValue ==
  <<"l", "o", "a", "d", " ", "t", "i", "m", "e", ":">>

\* "load time: nan"
L_runNaN ==
  <<"l", "o", "a", "d", " ", "t", "i", "m", "e", ":", " ", "n", "a", "n">>

\* "average load time: 2.5s"
L_avg25s ==
  <<"a", "v", "e", "r", "a", "g", "e", " ", "l", "o", "a", "d", " ", "t", "i", "m", "e", ":", " ", "2", ".", "5", "s">>

\* "average load time: 2.5 s"
L_avg25 ==
  <<"a", "v", "e", "r", "a", "g", "e", " ", "l", "o", "a", "d", " ", "t", "i", "m", "e", ":", " ", "2", ".", "5", " ", "s">>

\* "Average load time: 9.9"
L_avg99 ==
  <<"A", "v", "e", "r", "a", "g", "e", " ", "l", "o", "a", "d", " ", "t", "i", "m", "e", ":", " ", "9", ".", "9">>

\* "average load time: "
L_avgNoValue ==
  <<"a", "v", "e", "r", "a", "g", "e", " ", "l", "o", "a", "d", " ", "t", "i", "m", "e", ":", " ">>

\* "swap done"
L_noise ==
  <<"s", "w", "a", "p", " ", "d", "o", "n", "e">>

NL == <<"\n">>

\* "load time: 1.2s\nload time: 3.4s\naverage load time: 2.5s"
ExampleSuffixed == L_run12s \o NL \o L_run34s \o NL \o L_avg25s

\* "load time: 1.2 s\nload time: 3.4 s\naverage load time: 2.5 s"
ExampleSpaced == L_run12 \o NL \o L_run34 \o NL \o L_avg25

\* "load time: 1.2 s\nload time: 3.4 s\naverage load time: 2.5s"
ExampleSpacedSuffixedAverage == L_run12 \o NL \o L_run34 \o NL \o L_avg25s

AttachmentLines ==
  {L_run12s, L_run34s, L_run12, L_run34,
   L_runUpper, L_runNoValue, L_runNaN, L_avg25s,
   L_avg25, L_avg99, L_avgNoValue, L_noise}

\* the texts of at most MaxLines lines, joined by "\n"
AttachmentTexts ==
  {str_join(<<"\n">>, ls) :
     ls \in UNION {[1..k -> AttachmentLines] : k \in 0..MaxLines}}

\* ------------------------------------------------ test stages drawn

\* name "Load time"
A_loadTime ==
  [name |-> <<"L", "o", "a", "d", " ", "t", "i", "m", "e">>,
   source |-> "a.txt"]

\* name "swap load time log"
A_timings ==
  [name |-> <<"s", "w", "a", "p", " ", "l", "o", "a", "d", " ", "t", "i", "m", "e", " ", "l", "o", "g">>,
   source |-> "b.txt"]

\* name "LOAD TIME"
A_emptySource ==
  [name |-> <<"L", "O", "A", "D", " ", "T", "I", "M", "E">>,
   source |-> ""]

\* name "screenshot"
A_screenshot ==
  [name |-> <<"s", "c", "r", "e", "e", "n", "s", "h", "o", "t">>,
   source |-> "c.png"]

\* name "load time", no source key
A_noSource ==
  [name |-> <<"l", "o", "a", "d", " ", "t", "i", "m", "e">>]

Attachments == {A_loadTime, A_timings, A_emptySource, A_screenshot}

\* the attachment lists of at most MaxAttachments entries
AttachmentLists == UNION {[1..k -> Attachments] : k \in 0..MaxAttachments}

\* the attachment lists a step may hold
StepAttachmentLists ==
  {<<>>, <<A_loadTime>>, <<A_timings>>, <<A_emptySource>>, <<A_screenshot>>,
   <<A_noSource, A_timings>>}

Steps == {[attachments |-> l] : l \in StepAttachmentLists}

\* the records' testStage: top-level attachments and at most MaxSteps steps
TestStages ==
  {[attachments |-> a, steps |-> st] :
     a \in AttachmentLists, st \in UNION {[1..k -> Steps] : k \in 0..MaxSteps}}

\* ------------------------------------------------- run directories drawn

\* the record files of a test-cases directory
JsonFile(data) == [malformed |-> FALSE, data |-> data]

\* a file json.load raises on
R_malformed == [malformed |-> TRUE, data |-> [name |-> <<>>]]

R_passed ==
  JsonFile([name |-> <<"t", "e", "s", "t", "_", "l", "o", "g", "i", "n">>,
            status |-> JString("passed"), time |-> [duration |-> JNumber(100)],
            retriesCount |-> 0, flaky |-> FALSE])

R_failed ==
  JsonFile([name |-> <<"t", "e", "s", "t", "_", "s", "e", "n", "d">>,
            status |-> JString("failed"), time |-> [duration |-> JNumber(300)],
            retriesCount |-> 1, flaky |-> TRUE])

R_broken ==
  JsonFile([name |-> <<"t", "e", "s", "t", "_", "s", "y", "n", "c">>,
            status |-> JString("broken"), time |-> [duration |-> JNumber(300)]])

R_skipped ==
  JsonFile([name |-> <<"t", "e", "s", "t", "_", "k", "e", "y", "s">>,
            status |-> JString("skipped")])

\* no status key
R_noStatus ==
  JsonFile([name |-> <<"t", "e", "s", "t", "_", "c", "h", "a", "t">>,
            time |-> [duration |-> JNumber(100)]])

\* a status outside the five
R_otherStatus ==
  JsonFile([name |-> <<"t", "e", "s", "t", "_", "c", "h", "a", "t">>,
            status |-> JString("error"), time |-> [duration |-> JNumber(100)]])

\* "status": ["passed"], which no dict takes as a key
R_arrayStatus ==
  JsonFile([name |-> <<"t", "e", "s", "t", "_", "c", "h", "a", "t">>,
            status |-> JArray, time |-> [duration |-> JNumber(100)]])

\* "duration": "100"
R_stringDuration ==
  JsonFile([name |-> <<"t", "e", "s", "t", "_", "c", "h", "a", "t">>,
            status |-> JString("passed"), time |-> [duration |-> JString("100")]])

\* a performance test with the attachment a.txt
R_swap ==
  JsonFile([name |-> <<"t", "e", "s", "t", "_", "s", "w", "a", "p", "_", "l", "o", "a", "d", "i", "n", "g", "_", "t", "i", "m", "e", "[", "1", "]">>,
            status |-> JString("passed"), time |-> [duration |-> JNumber(300)],
            testStage |-> [attachments |-> <<A_screenshot, A_loadTime>>,
                           steps |-> <<>>]])

\* a performance test with the attachment b.txt, found in its first step
R_wallet ==
  JsonFile([name |-> <<"t", "e", "s", "t", "_", "w", "a", "l", "l", "e", "t", "_", "l", "o", "a", "d", "i", "n", "g", "_", "t", "i", "m", "e">>,
            status |-> JString("failed"), time |-> [duration |-> JNumber(100)],
            testStage |-> [steps |-> <<[attachments |-> <<A_timings>>]>>]])

\* the attachments directory of every run directory drawn
AttachmentFiles ==
  [src \in {"a.txt", "b.txt"} |->
     IF src = "a.txt" THEN File(ExampleSpaced)
     ELSE File(L_run12 \o <<"\n">> \o L_avg99)]

Records ==
  {R_malformed, R_passed, R_failed, R_broken, R_skipped, R_noStatus,
   R_otherStatus, R_arrayStatus, R_stringDuration, R_swap, R_wallet}

\* a run directory: test-cases/ with its *.json files in glob order, attachments/
RunDir(json_files) ==
  [test_cases_exists |-> TRUE, json_files |-> json_files,
   attachments |-> AttachmentFiles]

\* a run directory without test-cases/
RunDirWithoutTestCases ==
  [test_cases_exists |-> FALSE, json_files |-> <<>>, attachments |-> AttachmentFiles]

\* the run directories of at most MaxRecords record files
RunDirs ==
  {RunDir(fs) : fs \in UNION {[1..k -> Records] : k \in 0..MaxRecords}}
    \cup {RunDirWithoutTestCases}

\* the run directories of the specifications with several invocations
FewRunDirs ==
  {RunDirWithoutTestCases, RunDir(<<>>), RunDir(<<R_malformed>>),
   RunDir(<<R_passed>>), RunDir(<<R_swap, R_stringDuration>>)}

CommitHashes == {"a1b2c3d", "e4f5a6b"}

Dates == {"2024-12-19T14:30:45"}

\* --------------------------------------------------------------- state

VARIABLES
  content,      \* parse_performance_attachment: the file at the path, or NoFile
  perf_data,    \* parse_performance_attachment: what it returned
  parse_pc,     \* "call" before parse_performance_attachment runs, "return" after
  test_data,    \* find_performance_attachment_source: the decoded record
  attachment_source,  \* find_performance_attachment_source: what it returned
  find_pc,      \* "call" before find_performance_attachment_source runs, "return" after
  benchmark_dir,        \* per invocation: the run directory it is given
  args,                 \* per invocation: commit_hash and date
  pc,                   \* per invocation: where process_benchmark_run stands
  json_index,           \* per invocation: the index of the next of json_files
  aggregate,            \* per invocation: the dict aggregate
  performance_results,  \* per invocation: the list performance_results
  file_exists,          \* per invocation: the local file_exists
  buffer,               \* per invocation: rows written to the open file, not yet flushed
  stdout,               \* per invocation: the messages printed
  started,              \* the invocations in the order they were started
  summary_csv,          \* data_dir / 'summary_metrics.csv'
  performance_csv       \* data_dir / 'performance_metrics.csv'

parse_vars == <<content, perf_data, parse_pc>>

find_vars == <<test_data, attachment_source, find_pc>>

run_vars ==
  <<benchmark_dir, args, pc, json_index, aggregate, performance_results,
    file_exists, buffer, stdout, started, summary_csv, performance_csv>>

vars == <<parse_vars, find_vars, run_vars>>

Invocations == 1..NumInvocations

\* the variables of a function that is not called
ParseIdle == content = NoFile /\ perf_data = EmptyDict /\ parse_pc = "idle"

FindIdle == test_data = EmptyDict /\ attachment_source = None /\ find_pc = "idle"

\* the state before any invocation runs; those of `running` will, with a run
\* directory of dirs
RunInit(running, dirs) ==
  /\ benchmark_dir \in [Invocations -> dirs]
  /\ \A p \in Invocations \ running : benchmark_dir[p] = RunDirWithoutTestCases
  /\ args \in [Invocations -> [commit_hash : CommitHashes, date : Dates]]
  /\ \A p \in Invocations \ running : args[p].commit_hash = "a1b2c3d"
  /\ pc = [p \in Invocations |-> IF p \in running THEN "start" ELSE "off"]
  /\ json_index = [p \in Invocations |-> 0]
  /\ aggregate = [p \in Invocations |-> EmptyDict]
  /\ performance_results = [p \in Invocations |-> <<>>]
  /\ file_exists = [p \in Invocations |-> FALSE]
  /\ buffer = [p \in Invocations |-> <<>>]
  /\ stdout = [p \in Invocations |-> <<>>]
  /\ started = <<>>

RunIdle ==
  /\ RunInit({}, {RunDirWithoutTestCases})
  /\ summary_csv = NoCsv
  /\ performance_csv = NoCsv

\* ------------------------------------------------ process_benchmark_run

Say(p, messages) == stdout' = [stdout EXCEPT ![p] = @ \o messages]

\* lines 121-141: the two directory checks and the fresh aggregate
Start(p) ==
  /\ pc[p] = "start"
  /\ started' = Append(started, p)
  /\ IF ~benchmark_dir[p].test_cases_exists
     THEN /\ Say(p, <<"Processing benchmark", "Error: test-cases directory not found">>)
          /\ pc' = [pc EXCEPT ![p] = "done"]
          /\ UNCHANGED <<json_index, aggregate, performance_results>>
     ELSE IF benchmark_dir[p].json_files = <<>>
     THEN /\ Say(p, <<"Processing benchmark", "Error: No JSON files found">>)
          /\ pc' = [pc EXCEPT ![p] = "done"]
          /\ UNCHANGED <<json_index, aggregate, performance_results>>
     ELSE /\ Say(p, <<"Processing benchmark", "Found test case files">>)
          /\ pc' = [pc EXCEPT ![p] = "loop"]
          /\ json_index' = [json_index EXCEPT ![p] = 1]
          /\ aggregate' = [aggregate EXCEPT ![p] = InitialAggregate]
          /\ performance_results' = [performance_results EXCEPT ![p] = <<>>]
  /\ UNCHANGED <<parse_vars, find_vars, benchmark_dir, args, file_exists, buffer, summary_csv, performance_csv>>

\* lines 147-161, the record decoded: the fold, and line 160 when it raises
AfterFold(p, parsed, folded) ==
  /\ performance_results' =
       [performance_results EXCEPT ![p] =
          IF parsed.performance_metrics # None
          THEN Append(@, parsed.performance_metrics)
          ELSE @]
  /\ aggregate' = [aggregate EXCEPT ![p] = folded.aggregate]
  /\ IF folded.raised THEN Say(p, <<"Error parsing">>) ELSE UNCHANGED stdout

\* lines 145-161: line 160 when the decoding raised
AfterParse(p, parsed) ==
  IF parsed.raised
  THEN /\ Say(p, <<"Error parsing">>)
       /\ UNCHANGED <<aggregate, performance_results>>
  ELSE AfterFold(p, parsed, FoldRecord(aggregate[p], parsed.test_result))

\* lines 143-161: one pass of the loop over json_files
ProcessRecord(p) ==
  /\ pc[p] = "loop"
  /\ json_index[p] <= Len(benchmark_dir[p].json_files)
  /\ AfterParse(p, parse_test_case_json(benchmark_dir[p].json_files[json_index[p]],
                                        benchmark_dir[p]))
  /\ json_index' = [json_index EXCEPT ![p] = @ + 1]
  /\ UNCHANGED <<parse_vars, find_vars, benchmark_dir, args, pc, file_exists, buffer, started,
                 summary_csv, performance_csv>>

\* lines 163-181: after the loop
Finalize(p) ==
  /\ pc[p] = "loop"
  /\ json_index[p] > Len(benchmark_dir[p].json_files)
  /\ IF aggregate[p]["total_tests"] = 0
     THEN /\ Say(p, <<"Error: No test results found">>)
          /\ pc' = [pc EXCEPT ![p] = "done"]
          /\ UNCHANGED aggregate
     ELSE /\ aggregate' = [aggregate EXCEPT ![p] = FinalizeAggregate(@)]
          /\ pc' = [pc EXCEPT ![p] = "summary_exists"]
          /\ UNCHANGED stdout
  /\ UNCHANGED <<parse_vars, find_vars, benchmark_dir, args, json_index, performance_results, file_exists,
                 buffer, started, summary_csv, performance_csv>>

\* lines 183-184: file_exists = summary_csv.exists()
SummaryExists(p) ==
  /\ pc[p] = "summary_exists"
  /\ file_exists' = [file_exists EXCEPT ![p] = summary_csv.exists]
  /\ pc' = [pc EXCEPT ![p] = "summary_open"]
  /\ UNCHANGED <<parse_vars, find_vars, benchmark_dir, args, json_index, aggregate, performance_results,
                 buffer, stdout, started, summary_csv, performance_csv>>

\* open(summary_csv, 'w') in place of 'a': earlier rows are lost
OpenTruncating(csv) == Csv(<<>>)

\* open(path, 'a'): the file is created empty when it does not exist
OpenForAppend(csv) == IF csv.exists THEN csv ELSE Csv(<<>>)

\* line 186
SummaryOpen(p) ==
  /\ pc[p] = "summary_open"
  /\ summary_csv' = OpenForAppend(summary_csv)
  /\ buffer' = [buffer EXCEPT ![p] = <<>>]
  /\ pc' = [pc EXCEPT ![p] = "summary_header"]
  /\ UNCHANGED <<parse_vars, find_vars, benchmark_dir, args, json_index, aggregate, performance_results,
                 file_exists, stdout, started, performance_csv>>

\* writeheader() without the test of line 194
HeaderAlways(exists, fieldnames) == <<HeaderRow(fieldnames)>>

\* lines 194-195 and 226-227: what "if not file_exists: writer.writeheader()" writes
HeaderIfNew(exists, fieldnames) ==
  IF ~exists THEN <<HeaderRow(fieldnames)>> ELSE <<>>

\* lines 194-195
SummaryHeader(p) ==
  /\ pc[p] = "summary_header"
  /\ buffer' = [buffer EXCEPT ![p] = @ \o HeaderIfNew(file_exists[p], SUMMARY_FIELDNAMES)]
  /\ pc' = [pc EXCEPT ![p] = "summary_row"]
  /\ UNCHANGED <<parse_vars, find_vars, benchmark_dir, args, json_index, aggregate, performance_results,
                 file_exists, stdout, started, summary_csv, performance_csv>>

\* lines 197-213
SummaryRow(p) ==
  /\ pc[p] = "summary_row"
  /\ buffer' = [buffer EXCEPT ![p] =
                  Append(@, SummaryRowOf(args[p].commit_hash, args[p].date, aggregate[p]))]
  /\ pc' = [pc EXCEPT ![p] = "summary_close"]
  /\ UNCHANGED <<parse_vars, find_vars, benchmark_dir, args, json_index, aggregate, performance_results,
                 file_exists, stdout, started, summary_csv, performance_csv>>

\* line 186: the file object writes what it holds when its buffer fills, which may
\* be before the with block ends; every write lands at the end of the file
FlushSummary(p) ==
  /\ pc[p] \in {"summary_row", "summary_close"}
  /\ buffer[p] # <<>>
  /\ summary_csv' = Csv(summary_csv.rows \o buffer[p])
  /\ buffer' = [buffer EXCEPT ![p] = <<>>]
  /\ UNCHANGED <<parse_vars, find_vars, benchmark_dir, args, pc, json_index, aggregate, performance_results,
                 file_exists, stdout, started, performance_csv>>

\* line 213: the with block ends and the file is closed; line 215
SummaryClose(p) ==
  /\ pc[p] = "summary_close"
  /\ summary_csv' = Csv(summary_csv.rows \o buffer[p])
  /\ buffer' = [buffer EXCEPT ![p] = <<>>]
  /\ pc' = [pc EXCEPT ![p] =
              IF performance_results[p] # <<>> THEN "performance_exists" ELSE "report"]
  /\ UNCHANGED <<parse_vars, find_vars, benchmark_dir, args, json_index, aggregate, performance_results,
                 file_exists, stdout, started, performance_csv>>

\* lines 216-217: file_exists = performance_csv.exists()
PerformanceExists(p) ==
  /\ pc[p] = "performance_exists"
  /\ file_exists' = [file_exists EXCEPT ![p] = performance_csv.exists]
  /\ pc' = [pc EXCEPT ![p] = "performance_open"]
  /\ UNCHANGED <<parse_vars, find_vars, benchmark_dir, args, json_index, aggregate, performance_results,
                 buffer, stdout, started, summary_csv, performance_csv>>

\* line 219
PerformanceOpen(p) ==
  /\ pc[p] = "performance_open"
  /\ performance_csv' = OpenForAppend(performance_csv)
  /\ buffer' = [buffer EXCEPT ![p] = <<>>]
  /\ pc' = [pc EXCEPT ![p] = "performance_header"]
  /\ UNCHANGED <<parse_vars, find_vars, benchmark_dir, args, json_index, aggregate, performance_results,
                 file_exists, stdout, started, summary_csv>>

\* lines 226-227
PerformanceHeader(p) ==
  /\ pc[p] = "performance_header"
  /\ buffer' = [buffer EXCEPT ![p] =
                  @ \o HeaderIfNew(file_exists[p], PERFORMANCE_FIELDNAMES)]
  /\ pc' = [pc EXCEPT ![p] = "performance_rows"]
  /\ UNCHANGED <<parse_vars, find_vars, benchmark_dir, args, json_index, aggregate, performance_results,
                 file_exists, stdout, started, summary_csv, performance_csv>>

\* lines 229-240: one row per entry of performance_results
PerformanceRows(p) ==
  /\ pc[p] = "performance_rows"
  /\ buffer' = [buffer EXCEPT ![p] =
                  @ \o [i \in 1..Len(performance_results[p]) |->
                          PerformanceRowOf(args[p].commit_hash, args[p].date,
                                           performance_results[p][i])]]
  /\ pc' = [pc EXCEPT ![p] = "performance_close"]
  /\ UNCHANGED <<parse_vars, find_vars, benchmark_dir, args, json_index, aggregate, performance_results,
                 file_exists, stdout, started, summary_csv, performance_csv>>

\* line 219: as FlushSummary
FlushPerformance(p) ==
  /\ pc[p] \in {"performance_rows", "performance_close"}
  /\ buffer[p] # <<>>
  /\ performance_csv' = Csv(performance_csv.rows \o buffer[p])
  /\ buffer' = [buffer EXCEPT ![p] = <<>>]
  /\ UNCHANGED <<parse_vars, find_vars, benchmark_dir, args, pc, json_index, aggregate, performance_results,
                 file_exists, stdout, started, summary_csv>>

\* line 240: the with block ends and the file is closed
PerformanceClose(p) ==
  /\ pc[p] = "performance_close"
  /\ performance_csv' = Csv(performance_csv.rows \o buffer[p])
  /\ buffer' = [buffer EXCEPT ![p] = <<>>]
  /\ pc' = [pc EXCEPT ![p] = "report"]
  /\ UNCHANGED <<parse_vars, find_vars, benchmark_dir, args, json_index, aggregate, performance_results,
                 file_exists, stdout, started, summary_csv>>

\* lines 242-246
Report(p) ==
  /\ pc[p] = "report"
  /\ Say(p, <<"Processed tests">>
            \o (IF performance_results[p] # <<>>
                THEN <<"Processed performance tests">> ELSE <<>>)
            \o <<"Pass rate", "Total duration">>)
  /\ pc' = [pc EXCEPT ![p] = "done"]
  /\ UNCHANGED <<parse_vars, find_vars, benchmark_dir, args, json_index, aggregate, performance_results,
                 file_exists, buffer, started, summary_csv, performance_csv>>

\* the steps of an invocation after its start
Step(p) ==
  \/ ProcessRecord(p)
  \/ Finalize(p)
  \/ SummaryExists(p)
  \/ SummaryOpen(p)
  \/ SummaryHeader(p)
  \/ SummaryRow(p)
  \/ FlushSummary(p)
  \/ SummaryClose(p)
  \/ PerformanceExists(p)
  \/ PerformanceOpen(p)
  \/ PerformanceHeader(p)
  \/ PerformanceRows(p)
  \/ FlushPerformance(p)
  \/ PerformanceClose(p)
  \/ Report(p)

\* no invocation is between its start and its end
NoneRunning == \A q \in Invocations : pc[q] \in {"start", "done", "off"}

\* --------------------------------------- SpecRun: one invocation, any run

\* the summary log a previous run left: its header and one row
PriorSummary ==
  Csv(<<HeaderRow(SUMMARY_FIELDNAMES),
        SummaryRowOf("0000000", "2024-12-18T09:00:00",
                     FinalizeAggregate(
                       FoldRecord(InitialAggregate,
                                  parse_test_case_json(R_passed, RunDir(<<>>)).test_result
                                 ).aggregate))>>)

InitRun ==
  /\ ParseIdle
  /\ FindIdle
  /\ RunInit({1}, RunDirs)
  /\ summary_csv \in {NoCsv, PriorSummary}
  /\ performance_csv = NoCsv

NextRun == \E p \in Invocations : Start(p) \/ Step(p)

SpecRun == InitRun /\ [][NextRun]_vars

\* ------------------- SpecSeq: invocations one after another, one output dir

InitSeq ==
  /\ ParseIdle
  /\ FindIdle
  /\ RunInit(Invocations, FewRunDirs)
  /\ summary_csv = NoCsv
  /\ performance_csv = NoCsv

\* an invocation starts when the one before it has ended
StartAlone(p) == NoneRunning /\ Start(p)

NextSeq ==
  \E p \in Invocations :
    StartAlone(p) \/ Step(p)

SpecSeq == InitSeq /\ [][NextSeq]_vars

\* ----------------- SpecPair: two invocations at once, one output directory

InitPair ==
  /\ ParseIdle
  /\ FindIdle
  /\ RunInit({1, 2}, FewRunDirs)
  /\ summary_csv = NoCsv
  /\ performance_csv = NoCsv

NextPair == \E p \in Invocations : Start(p) \/ Step(p)

SpecPair == InitPair /\ [][NextPair]_vars

\* ------------------------------------- SpecParse: the attachment parser

InitParse ==
  /\ content \in {File(t) : t \in AttachmentTexts} \cup {NoFile}
  /\ perf_data = EmptyDict
  /\ parse_pc = "call"
  /\ FindIdle
  /\ RunIdle

ParseAttachment ==
  /\ parse_pc = "call"
  /\ perf_data' = parse_performance_attachment(content)
  /\ parse_pc' = "return"
  /\ UNCHANGED <<content, find_vars, run_vars>>

NextParse == ParseAttachment

SpecParse == InitParse /\ [][NextParse]_vars

\* ======================================================= claims, SpecRun

\* the rows of a log that are data rows, in file order
DataRows(csv) == SelectSeq(csv.rows, LAMBDA r : r.kind = "row")

Headers(csv) == SelectSeq(csv.rows, LAMBDA r : r.kind = "header")

\* C1: every summary row that is persisted has
\* passed + failed + broken + skipped + unknown = total_tests, also when a
\* record's status is missing or is not one of the five.
C1_StatusCountsSumToTotal ==
  \A i \in 1..Len(DataRows(summary_csv)) :
    LET row == DataRows(summary_csv)[i]
    IN  row.passed + row.failed + row.broken + row.skipped + row.unknown
          = row.total_tests

\* the step is a pass of the loop of invocation p that printed "Error parsing"
RecordRaised(p) ==
  /\ pc[p] = "loop"
  /\ json_index'[p] = json_index[p] + 1
  /\ stdout'[p] = Append(stdout[p], "Error parsing")

\* C2: when the processing of one record raises, while decoding it or while
\* folding it in, the run aggregate is exactly what it was before that record.
C2_RaisingRecordLeavesAggregate ==
  [][\A p \in Invocations : RecordRaised(p) => aggregate'[p] = aggregate[p]]_vars

\* the number of records of invocation p that raised
ErrorsParsing(p) ==
  Cardinality({i \in 1..Len(stdout[p]) : stdout[p][i] = "Error parsing"})

\* invocation p has ended and processed no record successfully: no test-cases
\* directory, no record files, or every record raised
EndedWithoutRecord(p) ==
  /\ pc[p] = "done"
  /\ ErrorsParsing(p) = Len(benchmark_dir[p].json_files)

\* C3: an invocation in which no record is processed successfully writes
\* nothing: neither log is created or appended to.
C3_NoRecordNoWrite ==
  \A p \in Invocations :
    EndedWithoutRecord(p) =>
      /\ summary_csv \in {NoCsv, PriorSummary}
      /\ performance_csv = NoCsv

\* C10: every PerformanceSample that is produced, and every row appended to
\* performance_metrics, has run_count >= 1 and min_time <= avg_time <= max_time.
C10_AverageWithinExtrema ==
  /\ \A p \in Invocations : \A i \in 1..Len(performance_results[p]) :
       LET perf == performance_results[p][i]
       IN  /\ perf.run_count >= 1
           /\ float_le(perf.min_time, perf.avg_time)
           /\ float_le(perf.avg_time, perf.max_time)
  /\ \A i \in 1..Len(DataRows(performance_csv)) :
       LET row == DataRows(performance_csv)[i]
       IN  /\ row.run_count >= 1
           /\ float_le(row.min_time, row.avg_time)
           /\ float_le(row.avg_time, row.max_time)

\* ======================================================= claims, SpecSeq

\* invocation p reached line 242: it wrote its summary row
Wrote(p) == \E i \in 1..Len(stdout[p]) : stdout[p][i] = "Processed tests"

\* the invocations that wrote, in the order they were run
Writers == SelectSeq(started, Wrote)

\* C4: after n >= 1 successful invocations run one after another on an output
\* directory without a summary log, the log is one header row followed by n data
\* rows in invocation order, one per invocation, also when commit_hash and date
\* repeat; an invocation that fails leaves the log as it was.
C4_OneHeaderThenRowsInOrder ==
  NoneRunning =>
    IF Writers = <<>>
    THEN summary_csv = NoCsv
    ELSE /\ summary_csv.exists
         /\ Len(summary_csv.rows) = Len(Writers) + 1
         /\ summary_csv.rows[1] = HeaderRow(SUMMARY_FIELDNAMES)
         /\ \A i \in 1..Len(Writers) :
              LET row == summary_csv.rows[i + 1]
                  q == Writers[i]
              IN  /\ row.kind = "row"
                  /\ row.commit_hash = args[q].commit_hash
                  /\ row.date = args[q].date
                  /\ row.total_tests = aggregate[q]["total_tests"]
                  /\ row.total_duration_ms = aggregate[q]["total_duration_ms"]

\* C4, witness: two invocations with the same commit_hash and date have each
\* appended a row.
C4_Witness ==
  /\ NoneRunning
  /\ Len(Writers) >= 2
  /\ args[Writers[1]] = args[Writers[2]]
  /\ Len(summary_csv.rows) = Len(Writers) + 1

\* ====================================================== claims, SpecPair

\* the two invocations have ended and each wrote its summary row
BothWrote == pc[1] = "done" /\ pc[2] = "done" /\ Wrote(1) /\ Wrote(2)

TheirRows ==
  [p \in {1, 2} |-> SummaryRowOf(args[p].commit_hash, args[p].date, aggregate[p])]

\* C5, as the spec states it: for every interleaving of two invocations that
\* append to the same initially absent summary log, the final file holds one
\* header row, as its first row, and two data rows.
C5_HeaderOnceUnderInterleaving ==
  BothWrote =>
    /\ Len(Headers(summary_csv)) = 1
    /\ summary_csv.rows[1].kind = "header"
    /\ Len(DataRows(summary_csv)) = 2

\* C5, amended: for every such interleaving the final file holds exactly two
\* data rows, one of each invocation, and one or two header rows; a second
\* header is written when both existence checks come before the file is created.
C5_TwoRowsOneOrTwoHeaders ==
  BothWrote =>
    /\ DataRows(summary_csv) \in {<<TheirRows[1], TheirRows[2]>>,
                                  <<TheirRows[2], TheirRows[1]>>}
    /\ Len(Headers(summary_csv)) \in {1, 2}
    /\ Len(summary_csv.rows) = 2 + Len(Headers(summary_csv))

\* C5, witness: both invocations have written and the file holds two headers.
C5_Witness == BothWrote /\ Len(Headers(summary_csv)) = 2

\* ===================================================== claims, SpecParse

Returned == parse_pc = "return"

\* C6, as the spec states it: on the text "load time: 1.2s", "load time: 3.4s",
\* "average load time: 2.5s" the parser returns min_time = 1.2, max_time = 3.4,
\* avg_time = 2.5 and run_count = 2.
C6_SuffixedExampleParsed ==
  (Returned /\ content = File(ExampleSuffixed)) =>
    /\ Truthy(perf_data)
    /\ perf_data.min_time = Frac(12, 10)
    /\ perf_data.max_time = Frac(34, 10)
    /\ perf_data.avg_time = Frac(25, 10)
    /\ perf_data.run_count = 2

\* C6, amended: a value token with the unit "s" attached does not parse.  On the
\* suffixed example every sample line is skipped and the result is empty; with
\* white space between number and unit the result is min_time = 1.2,
\* max_time = 3.4, avg_time = 2.5, run_count = 2; and with only the average
\* line's unit attached the average line is ignored and avg_time is the mean 2.3.
C6_SuffixedTokenNotParsed ==
  Returned =>
    /\ content = File(ExampleSuffixed) => ~Truthy(perf_data)
    /\ content = File(ExampleSpaced) =>
         /\ Truthy(perf_data)
         /\ perf_data.min_time = Frac(12, 10)
         /\ perf_data.max_time = Frac(34, 10)
         /\ perf_data.avg_time = Frac(25, 10)
         /\ perf_data.run_count = 2
    /\ content = File(ExampleSpacedSuffixedAverage) =>
         /\ Truthy(perf_data)
         /\ perf_data.avg_time = Frac(23, 10)
         /\ perf_data.run_count = 2

\* C6, witness: the parser has returned the empty result on the suffixed example.
C6_Witness ==
  Returned /\ content = File(ExampleSuffixed) /\ ~Truthy(perf_data)

\* The lines of the text under check.
ContentLines == str_split(content.text, NL)

\* The claims' sample line: "load time:" in any letter case and no "average".
IsSampleLine(line) ==
  str_in(LOAD_TIME_COLON, str_lower(line)) /\ ~str_in(AVERAGE, str_lower(line))

\* The tokens after the first "load time:", found in any letter case.
SampleTokens(line) ==
  LET i == str_find(LOAD_TIME_COLON, str_lower(line))
  IN  str_split_ws(SubSeq(line, i + Len(LOAD_TIME_COLON), Len(line)))

HasSampleValue(line) ==
  /\ IsSampleLine(line)
  /\ SampleTokens(line) # <<>>
  /\ float_of(SampleTokens(line)[1]) # ValueError

RECURSIVE ClaimedSamples(_, _)
\* The values of the lines[1..k] that have a sample value, in input order.
ClaimedSamples(lines, k) ==
  IF k = 0 THEN <<>>
  ELSE IF HasSampleValue(lines[k])
       THEN Append(ClaimedSamples(lines, k - 1), float_of(SampleTokens(lines[k])[1]))
       ELSE ClaimedSamples(lines, k - 1)

\* C7: the samples collected are exactly, in input order, the values of the
\* lines that contain "load time:" in any letter case, do not contain "average",
\* and whose first token after "load time:" parses; a sample line without a
\* parseable value is skipped on its own, so run_count is the number of such
\* lines (and the result is empty only when there is none).
C7_SamplesAreTheParseableLines ==
  (Returned /\ content.exists) =>
    LET want == ClaimedSamples(ContentLines, Len(ContentLines))
    IN  IF want = <<>>
        THEN ~Truthy(perf_data)
        ELSE /\ Truthy(perf_data)
             /\ perf_data.run_count = Len(want)
             /\ perf_data.all_runs =
                  str_join(<<",">>, [i \in 1..Len(want) |-> float_str(want[i])])

\* The claims' average line: "average" and "load time" in any letter case.
IsAverageLine(line) ==
  str_in(AVERAGE, str_lower(line)) /\ str_in(LOAD_TIME, str_lower(line))

AverageTokens(line) ==
  LET parts == str_split(line, <<":">>)
  IN  IF Len(parts) > 1 THEN str_split_ws(parts[2]) ELSE <<>>

HasAverageValue(line) ==
  /\ IsAverageLine(line)
  /\ AverageTokens(line) # <<>>
  /\ float_of(AverageTokens(line)[1]) # ValueError

\* C8: whenever the text has at least one parseable sample line (and no sample
\* line raises), the result is populated, avg_time is the value of an average line
\* with a parseable value when there is one and the mean of the samples otherwise;
\* an average line without a parseable value changes nothing and does not make
\* the result empty.
C8_UnparseableAverageIgnored ==
  (Returned /\ content.exists) =>
    LET first == CollectRunTimes(ContentLines, Len(ContentLines))
        avgs == {k \in 1..Len(ContentLines) : HasAverageValue(ContentLines[k])}
    IN  (~first.raised /\ first.run_times # <<>>) =>
          /\ Truthy(perf_data)
          /\ perf_data.run_count = Len(first.run_times)
          /\ perf_data.min_time = py_min(first.run_times)
          /\ perf_data.max_time = py_max(first.run_times)
          /\ IF avgs = {}
             THEN perf_data.avg_time =
                    float_div(py_sum(first.run_times), Len(first.run_times))
             ELSE \E k \in avgs :
                    perf_data.avg_time = float_of(AverageTokens(ContentLines[k])[1])

\* --------------------------- SpecFind: the attachment source lookup

InitFind ==
  /\ test_data \in {[testStage |-> ts] : ts \in TestStages} \cup {[name |-> <<"t">>]}
  /\ attachment_source = None
  /\ find_pc = "call"
  /\ ParseIdle
  /\ RunIdle

FindSource ==
  /\ find_pc = "call"
  /\ attachment_source' = find_performance_attachment_source(test_data)
  /\ find_pc' = "return"
  /\ UNCHANGED <<test_data, parse_vars, run_vars>>

NextFind == FindSource

SpecFind == InitFind /\ [][NextFind]_vars

\* ====================================================== claims, SpecFind

\* The attachments in the order of the search: the test stage's own, then each
\* step's in step order.
RECURSIVE StepAttachments(_, _)
StepAttachments(steps, k) ==
  IF k = 0 THEN <<>>
  ELSE StepAttachments(steps, k - 1) \o Get(steps[k], "attachments", <<>>)

SearchOrder ==
  LET test_stage == Get(test_data, "testStage", EmptyDict)
      steps == Get(test_stage, "steps", <<>>)
  IN  Get(test_stage, "attachments", <<>>) \o StepAttachments(steps, Len(steps))

NameMatches(a) == str_in(LOAD_TIME, str_lower(Get(a, "name", <<>>)))

\* the first index of SearchOrder that satisfies P, 0 when none
FirstIndex(P(_)) ==
  LET hits == {i \in 1..Len(SearchOrder) : P(SearchOrder[i])}
  IN  IF hits = {} THEN 0 ELSE CHOOSE i \in hits : \A k \in hits : i <= k

Usable(a) == NameMatches(a) /\ Get(a, "source", "") # ""

\* C9, as the spec states it: the result is the declared source of the first
\* attachment, in search order, whose name contains "load time"; it is None only
\* when no attachment has a matching name.
C9_FirstNameMatchReturned ==
  find_pc = "return" =>
    LET i == FirstIndex(NameMatches)
    IN  IF i = 0
        THEN attachment_source = None
        ELSE attachment_source = Str(Get(SearchOrder[i], "source", ""))

\* C9, amended: the result is the source of the first attachment, in search
\* order, whose name contains "load time" and whose source is not empty; a
\* matching attachment with an empty or missing source is passed over, and the
\* result is None exactly when no attachment has both.
C9_FirstUsableMatchReturned ==
  find_pc = "return" =>
    LET i == FirstIndex(Usable)
    IN  IF i = 0
        THEN attachment_source = None
        ELSE attachment_source = Str(SearchOrder[i].source)

\* C9, witness: the first name match has no source, a later attachment has one,
\* and its source was returned.
C9_Witness ==
  /\ find_pc = "return"
  /\ FirstIndex(NameMatches) # 0
  /\ FirstIndex(NameMatches) < FirstIndex(Usable)
  /\ attachment_source = Str(SearchOrder[FirstIndex(Usable)].source)

====
